---- MODULE Spec2Model ----
(***************************************************************************)
(* PageTurner: the chapter traversal loop of pageturner.py (main), the     *)
(* URL navigator of src/core/chapter_navigator.py, the content extractor   *)
(* of src/core/content_extractor.py and the chapter/table-of-contents part *)
(* of src/core/epub_generator.py.                                          *)
(*                                                                         *)
(* Strings of the program (URLs, regex groups) are sequences of one        *)
(* character strings, so that searching, slicing and replacing are the     *)
(* operations the Python code performs.  Python's None is never mixed with *)
(* a string value: an optional value is a record with a "kind" field.      *)
(***************************************************************************)
EXTENDS Integers, Sequences, FiniteSets, TLC

(***************************************************************************)
(* Bounds of the model.                                                    *)
(***************************************************************************)
MaxFetches == 4
MaxThreshold == 3
MaxNodes == 3
MaxChapters == 3
MaxTitleLen == 4

(***************************************************************************)
(* Characters.                                                             *)
(***************************************************************************)
DigitChars == <<"0", "1", "2", "3", "4", "5", "6", "7", "8", "9">>

IsDigit(c) == \E i \in 1..10 : DigitChars[i] = c

DigitVal(c) == (CHOOSE i \in 1..10 : DigitChars[i] = c) - 1

\* \w of Python's re over the characters used in the modelled URLs
IsWord(c) == IsDigit(c) \/ c \in {"c", "e", "h", "x", "_"}

(***************************************************************************)
(* str(int) and int(str) of Python.                                        *)
(***************************************************************************)
RECURSIVE NatToStr(_)
NatToStr(n) ==
    IF n < 10 THEN <<DigitChars[n + 1]>>
    ELSE NatToStr(n \div 10) \o <<DigitChars[(n % 10) + 1]>>

\* str(n) for an integer n
IntToStr(n) == IF n < 0 THEN <<"-">> \o NatToStr(0 - n) ELSE NatToStr(n)

RECURSIVE DigitsToNat(_)
DigitsToNat(s) ==
    IF s = <<>> THEN 0
    ELSE 10 * DigitsToNat(SubSeq(s, 1, Len(s) - 1)) + DigitVal(s[Len(s)])

\* the digits from the first that is not 0: leading zeros add nothing
SignificantDigits(s) ==
    LET nonzero == {i \in 1..Len(s) : s[i] # "0"}
    IN  IF nonzero = {} THEN <<>>
        ELSE SubSeq(s, CHOOSE i \in nonzero : \A k \in nonzero : i <= k, Len(s))

HasSign(s) == s # <<>> /\ s[1] \in {"-", "+"}

Unsigned(s) == IF HasSign(s) THEN Tail(s) ELSE s

\* digits, with single underscores between digits allowed: 1_0, 0_0_7
DigitGroups(s) ==
    /\ s # <<>>
    /\ \A i \in 1..Len(s) : IsDigit(s[i]) \/ s[i] = "_"
    /\ IsDigit(s[1])
    /\ IsDigit(s[Len(s)])
    /\ \A i \in 1..(Len(s) - 1) : s[i] = "_" => s[i + 1] # "_"

\* s is an integer literal: an optional sign, then digits that may be
\* separated by single underscores (no whitespace reaches int() here)
IntLiteral(s) == DigitGroups(Unsigned(s))

\* sys.int_info.str_digits_check_threshold: the least limit other than 0
\* that the interpreter accepts
StrDigitsCheckThreshold == 640

\* sys.int_info.default_max_str_digits
DefaultMaxStrDigits == 4300

\* sys.get_int_max_str_digits() is 0 (no limit) or any value from the
\* threshold up.  It is set outside the program, so a call is tried under
\* every setting.  For conversions of at most `longest` digits each setting
\* above `longest` lets all of them through, exactly as 0 does, so the
\* settings from the threshold up to `longest`, with 0 and the default,
\* give every outcome that any setting gives.
IntMaxStrDigitsSettings(longest) ==
    {0, DefaultMaxStrDigits} \cup (StrDigitsCheckThreshold..longest)

WithinLimit(ndigits, limit) == limit = 0 \/ ndigits <= limit

\* int(s) does not raise ValueError: s is a literal and the number of its
\* digits (sign and underscores not counted) is within the limit
PyIntValid(s, limit) ==
    /\ IntLiteral(s)
    /\ WithinLimit(Len(SelectSeq(Unsigned(s), IsDigit)), limit)

\* str(n) does not raise ValueError: the digits of n are within the limit
PyStrValid(n, limit) == WithinLimit(Len(NatToStr(IF n < 0 THEN 0 - n ELSE n)), limit)

\* int(s) for a valid literal; the underscores are ignored and leading zeros
\* are dropped by the conversion
PyInt(s) ==
    LET digits == SignificantDigits(SelectSeq(Unsigned(s), IsDigit))
    IN  IF HasSign(s) /\ s[1] = "-" THEN 0 - DigitsToNat(digits)
        ELSE DigitsToNat(digits)

(***************************************************************************)
(* The regular expressions of the url_pattern rule.  A pattern is a record *)
(* [form, pre, post]; pre and post are literal text and the first          *)
(* character of post is never matched by the repeated class, so the greedy *)
(* repetition never has to give characters back.  With D = \d and W = \w   *)
(* the pattern text of each form is                                        *)
(*   seg_num  : "(" pre "(D+)" post ")"     two groups                     *)
(*   num      : pre "(D+)" post             one group                      *)
(*   seg_word : "(" pre "(W+)" post ")"     two groups                     *)
(*   seg_star : "(" pre "(D{0,})" post ")"  two groups, maybe empty        *)
(*   seg_opt  : "(" pre ")(D+)?" post       two groups, the second optional*)
(*   seg_last : "(" pre "D{0,}(D)" post ")" two groups, the second 1 digit *)
(*   nogroup  : pre "D+" post               no group                       *)
(***************************************************************************)
Forms == {"seg_num", "num", "seg_word", "seg_star", "seg_opt", "seg_last", "nogroup"}

InClass(form, c) == IF form = "seg_word" THEN IsWord(c) ELSE IsDigit(c)

\* length of the longest run of class characters of u that starts at j
RunLen(form, u, j) ==
    LET stops == {k \in j..Len(u) : ~InClass(form, u[k])}
    IN  IF stops = {} THEN (IF j > Len(u) THEN 0 ELSE Len(u) + 1 - j)
        ELSE (CHOOSE k \in stops : \A m \in stops : k <= m) - j

MinRun(form) == IF form \in {"seg_star", "seg_opt"} THEN 0 ELSE 1

LiteralAt(u, i, lit) ==
    /\ i + Len(lit) - 1 <= Len(u)
    /\ SubSeq(u, i, i + Len(lit) - 1) = lit

\* the pattern matches u with the match starting at position i
MatchAt(p, u, i) ==
    LET j == i + Len(p.pre)
        r == RunLen(p.form, u, j)
    IN  /\ LiteralAt(u, i, p.pre)
        /\ r >= MinRun(p.form)
        /\ LiteralAt(u, j + r, p.post)

NoGroup == [took_part |-> FALSE, text |-> <<>>]

Group(s) == [took_part |-> TRUE, text |-> s]

\* re.search(pattern, url): the leftmost match and its groups
Search(p, u) ==
    LET starts == {i \in 1..(Len(u) + 1) : MatchAt(p, u, i)}
    IN  IF starts = {} THEN [found |-> FALSE, ngroups |-> 0, g1 |-> NoGroup, g2 |-> NoGroup]
        ELSE
          LET i == CHOOSE k \in starts : \A m \in starts : k <= m
              j == i + Len(p.pre)
              r == RunLen(p.form, u, j)
              run == SubSeq(u, j, j + r - 1)
              whole == SubSeq(u, i, j + r + Len(p.post) - 1)
          IN  CASE p.form = "num" ->
                     [found |-> TRUE, ngroups |-> 1, g1 |-> Group(run), g2 |-> NoGroup]
                [] p.form = "nogroup" ->
                     [found |-> TRUE, ngroups |-> 0, g1 |-> NoGroup, g2 |-> NoGroup]
                [] p.form = "seg_opt" ->
                     [found |-> TRUE, ngroups |-> 2, g1 |-> Group(p.pre),
                      g2 |-> IF r = 0 THEN NoGroup ELSE Group(run)]
                [] p.form = "seg_last" ->
                     [found |-> TRUE, ngroups |-> 2, g1 |-> Group(whole),
                      g2 |-> Group(<<u[j + r - 1]>>)]
                [] OTHER ->
                     [found |-> TRUE, ngroups |-> 2, g1 |-> Group(whole), g2 |-> Group(run)]

(***************************************************************************)
(* re.sub of the first digit run (count=1) and str.replace(old, new, 1).   *)
(***************************************************************************)
SubFirstDigits(seg, repl) ==
    LET ds == {k \in 1..Len(seg) : IsDigit(seg[k])}
    IN  IF ds = {} THEN seg
        ELSE LET k == CHOOSE a \in ds : \A b \in ds : a <= b
                 r == RunLen("seg_num", seg, k)
             IN  SubSeq(seg, 1, k - 1) \o repl \o SubSeq(seg, k + r, Len(seg))

ReplaceFirst(u, old, new) ==
    LET at == {i \in 1..(Len(u) + 1) : LiteralAt(u, i, old)}
    IN  IF at = {} THEN u
        ELSE LET i == CHOOSE a \in at : \A b \in at : a <= b
             IN  SubSeq(u, 1, i - 1) \o new \o SubSeq(u, i + Len(old), Len(u))

(***************************************************************************)
(* URLChapterNavigator.get_next_chapter_url.  The result is               *)
(*   kind "url"   : the next URL,                                          *)
(*   kind "none"  : None was returned,                                     *)
(*   kind "raise" : an exception left the method (int(None) raises         *)
(*                  TypeError, which neither except clause catches).       *)
(***************************************************************************)
NavUrl(u) == [kind |-> "url", url |-> u]
NavNone == [kind |-> "none", url |-> <<>>]
NavRaise == [kind |-> "raise", url |-> <<>>]

\* the group passed to int(): group 2 with more than one group, else group 1
NumberGroup(m) == IF m.ngroups > 1 THEN m.g2 ELSE m.g1

\* the URL built from a parsed chapter number (lines 51-59)
BuildNextUrl(m, u, d) ==
    LET next_chapter_num == PyInt(NumberGroup(m).text) + d
        segment_to_replace == m.g1.text
        new_segment == SubFirstDigits(segment_to_replace, IntToStr(next_chapter_num))
    IN  ReplaceFirst(u, segment_to_replace, new_segment)

\* get_next_chapter_url handing back the current URL when nothing matches
get_next_chapter_url_nomatch(p, d, u, limit) ==
    LET m == Search(p, u)
    IN  IF ~m.found THEN NavUrl(u)
        ELSE IF m.ngroups = 0 THEN NavNone
        ELSE IF ~NumberGroup(m).took_part THEN NavRaise
        ELSE IF ~PyIntValid(NumberGroup(m).text, limit) THEN NavNone
        ELSE IF ~PyStrValid(PyInt(NumberGroup(m).text) + d, limit) THEN NavNone
        ELSE LET next_url == BuildNextUrl(m, u, d)
             IN  IF next_url = u THEN NavNone ELSE NavUrl(next_url)

\* get_next_chapter_url without the check of lines 65-67
get_next_chapter_url_unguarded(p, d, u, limit) ==
    LET m == Search(p, u)
    IN  IF ~m.found THEN NavNone
        ELSE IF m.ngroups = 0 THEN NavNone
        ELSE IF ~NumberGroup(m).took_part THEN NavRaise
        ELSE IF ~PyIntValid(NumberGroup(m).text, limit) THEN NavNone
        ELSE IF ~PyStrValid(PyInt(NumberGroup(m).text) + d, limit) THEN NavNone
        ELSE NavUrl(BuildNextUrl(m, u, d))

\* no int() or str() of a call converts more digits than this: the digits of
\* the number group, and for the sum the digits of the increment on top
LongestConversion(p, d, u) ==
    LET m == Search(p, u)
    IN  IF ~m.found \/ m.ngroups = 0 \/ ~NumberGroup(m).took_part THEN 0
        ELSE Len(NumberGroup(m).text) + Len(NatToStr(IF d < 0 THEN 0 - d ELSE d))

\* the settings of the limit under which a call can end differently
NavigatorLimits(p, d, u) == IntMaxStrDigitsSettings(LongestConversion(p, d, u))

\* limit is the interpreter's int_max_str_digits during the call
get_next_chapter_url(p, d, u, limit) ==
    LET m == Search(p, u)
    IN  IF ~m.found THEN NavNone
        ELSE IF m.ngroups = 0 THEN NavNone                    \* IndexError
        ELSE IF ~NumberGroup(m).took_part THEN NavRaise       \* TypeError
        ELSE IF ~PyIntValid(NumberGroup(m).text, limit) THEN NavNone \* ValueError
        ELSE IF ~PyStrValid(PyInt(NumberGroup(m).text) + d, limit) THEN NavNone \* ValueError
        ELSE LET next_url == BuildNextUrl(m, u, d)
             IN  IF next_url = u THEN NavNone ELSE NavUrl(next_url)

(***************************************************************************)
(* PageLoader.fetch_page: what a fetch can give.  "none" is the None of a  *)
(* failed request, "empty" a response with an empty body, "page" a page in *)
(* which the title selector finds no tag ("absent"), a tag without text    *)
(* ("blank") or a tag with text ("text"), and in which some content        *)
(* selector matches (has_content) or none does.                            *)
(***************************************************************************)
FetchNone == [kind |-> "none", title_tag |-> "absent", has_content |-> FALSE]

FetchEmptyBody == [kind |-> "empty", title_tag |-> "absent", has_content |-> FALSE]

Pages == [kind : {"page"}, title_tag : {"absent", "blank", "text"}, has_content : BOOLEAN]

FetchResults == {FetchNone, FetchEmptyBody} \cup Pages

\* truth value of the fetched text in "if chapter_html:"
HtmlTruthy(html) == html.kind = "page"

(***************************************************************************)
(* Titles and contents.  The text of the title tag of the page at URL u is *)
(* PageTitle(u), the default title of line 167 is DefaultTitle(n), and the *)
(* serialized content node of the page at u is PageContent(u).             *)
(***************************************************************************)
NoTitle == [kind |-> "none", url |-> <<>>, n |-> 0]

BlankTitle == [kind |-> "blank", url |-> <<>>, n |-> 0]

PageTitle(u) == [kind |-> "text", url |-> u, n |-> 0]

DefaultTitle(n) == [kind |-> "default", url |-> <<>>, n |-> n]

\* truth value of a title in "extracted_title if extracted_title else ..."
TitleTruthy(t) == t.kind \in {"text", "default"}

NoContent == [kind |-> "none", url |-> <<>>]

PageContent(u) == [kind |-> "html", url |-> u]

\* ContentExtractor.extract_content on the page fetched from u
extract_content(html, u) ==
    LET extracted_title ==
            CASE html.title_tag = "text" -> PageTitle(u)
              [] html.title_tag = "blank" -> BlankTitle
              [] OTHER -> NoTitle
    IN  IF ~HtmlTruthy(html) THEN [title |-> NoTitle, content |-> NoContent]
        ELSE IF ~html.has_content THEN [title |-> extracted_title, content |-> NoContent]
        ELSE [title |-> extracted_title, content |-> PageContent(u)]

\* the test "extracted_title is not None" in place of the truth value
chapter_title_to_use_found(extracted_title, n) ==
    IF extracted_title.kind # "none" THEN extracted_title ELSE DefaultTitle(n)

\* the title of the record appended at line 167
chapter_title_to_use(extracted_title, n) ==
    IF TitleTruthy(extracted_title) THEN extracted_title ELSE DefaultTitle(n)

\* the record appended to chapter_contents at lines 169-172
ChapterRecord(title, content) == [title |-> title, html_content |-> content]

\* add_chapters inserting each entry at the front of toc_items
add_chapters_front(chapter_data_list) ==
    LET kept == SelectSeq(chapter_data_list, LAMBDA c : c.html_content.kind = "html")
    IN  [i \in 1..Len(kept) |-> kept[Len(kept) + 1 - i].title]

\* EpubGenerator.add_chapters: the titles of toc_items, in insertion order;
\* a record without html_content is skipped
add_chapters(chapter_data_list) ==
    LET kept == SelectSeq(chapter_data_list, LAMBDA c : c.html_content.kind = "html")
    IN  [i \in 1..Len(kept) |-> kept[i].title]

(***************************************************************************)
(* Configurations: the url_pattern rule and the start URL.                 *)
(***************************************************************************)
Pat(form, pre, post) == [form |-> form, pre |-> pre, post |-> post]

\* a chapter number written with more digits than the least limit the
\* interpreter can have: the threshold's worth of zeros before a 1
LongNumberUrl ==
    <<"x", "/", "c", "-">> \o [i \in 1..StrDigitsCheckThreshold |-> "0"] \o <<"1">>

Configs ==
    { [pattern |-> Pat("seg_num", <<"c", "-">>, <<".", "h">>), start |-> <<"x", "/", "c", "-", "7", ".", "h">>],
      [pattern |-> Pat("seg_num", <<"c", "-">>, <<>>),         start |-> LongNumberUrl],
      [pattern |-> Pat("seg_num", <<"c", "-">>, <<>>),         start |-> <<"x", "/", "e", "-", "1">>],
      [pattern |-> Pat("seg_num", <<"2", "c">>, <<>>),         start |-> <<"/", "2", "c", "7">>],
      [pattern |-> Pat("num", <<"c", "-">>, <<>>),             start |-> <<"x", "7", "/", "c", "-", "7">>],
      [pattern |-> Pat("seg_word", <<"c", "-">>, <<>>),        start |-> <<"x", "/", "c", "-", "e", "1">>],
      [pattern |-> Pat("seg_word", <<"c", "-">>, <<>>),        start |-> <<"x", "/", "c", "-", "1", "_", "0">>],
      [pattern |-> Pat("seg_star", <<"c", "-">>, <<>>),        start |-> <<"x", "/", "c", "-">>],
      [pattern |-> Pat("seg_opt", <<"c", "-">>, <<>>),         start |-> <<"x", "/", "c", "-">>],
      [pattern |-> Pat("seg_opt", <<"c", "-">>, <<>>),         start |-> <<"x", "/", "c", "-", "1">>],
      [pattern |-> Pat("seg_last", <<"c", "-">>, <<>>),        start |-> <<"x", "/", "c", "-", "5">>],
      [pattern |-> Pat("nogroup", <<"c", "-">>, <<>>),         start |-> <<"x", "/", "c", "-", "1">>],
      [pattern |-> Pat("seg_num", <<"c", "-">>, <<>>),         start |-> <<>>] }

Increments == {-1, 0, 1, 5}

(***************************************************************************)
(* The loaded configuration as far as main validates it: the keys that are *)
(* present, whether the content_selectors list is empty, and whether       *)
(* next_chapter_selectors holds a rule of type url_pattern.                *)
(***************************************************************************)
RequiredKeys == {"novel_title", "start_url", "content_selectors", "next_chapter_selectors"}

ConfigShapes ==
    {c \in [keys : SUBSET RequiredKeys, content_selectors_empty : BOOLEAN,
            has_url_pattern : BOOLEAN] :
        /\ c.content_selectors_empty => "content_selectors" \in c.keys
        /\ c.has_url_pattern => "next_chapter_selectors" \in c.keys}

\* the validation of lines 95-97 lets the configuration pass
ConfigValid(c) ==
    /\ {"novel_title", "start_url", "content_selectors"} \subseteq c.keys
    /\ "next_chapter_selectors" \in c.keys
    /\ c.has_url_pattern

\* a constructor without the check of lines 23-24
ExtractorRejects_never(c) == FALSE

\* ContentExtractor.__init__ raises ValueError (lines 23-24)
ExtractorRejects(c) == c.content_selectors_empty

Thresholds == 0..MaxThreshold

(***************************************************************************)
(* State of main().                                                        *)
(***************************************************************************)
VARIABLES
    config,                      \* shape of the loaded configuration
    url_pattern,                 \* navigator.url_pattern
    increment_by,                \* navigator.increment_by
    start_url,                   \* navigator.start_url
    empty_chapter_threshold,     \* line 130
    pc,                          \* position in main: config, setup, guard, fetch, extract,
                                 \* advance, finish, exited
    current_chapter_url,
    chapter_number,
    processed_urls,
    chapter_contents,
    consecutive_empty_chapters,
    chapter_html,                \* result of the last fetch_page
    next_url,                    \* result of the last get_next_chapter_url
    fetched,                     \* log of the fetch_page calls: [url, html]
    stop_reason,                 \* which exit of the loop was taken
    generator_calls,             \* number of EpubGenerator objects built
    generator_input,             \* the list handed to add_chapters
    toc_items,                   \* titles of EpubGenerator.toc_items
    written,                     \* write_epub produced the file
    exit_status                  \* -1 while running, else the process status

config_vars == <<config, url_pattern, increment_by, start_url, empty_chapter_threshold>>

loop_vars == <<current_chapter_url, chapter_number, processed_urls, chapter_contents,
               consecutive_empty_chapters, chapter_html, next_url>>

builder_vars == <<generator_calls, generator_input, toc_items, written>>

main_vars == <<config_vars, pc, loop_vars, fetched, stop_reason, builder_vars, exit_status>>

(***************************************************************************)
(* State of the components when they are exercised on their own: one call  *)
(* of ContentExtractor.extract_content, one call of _sanitize_filename,    *)
(* and one EpubGenerator taken through add_chapters and generate_epub.     *)
(***************************************************************************)
VARIABLES
    ex_pc,                       \* idle, ready, done
    ex_doc,                      \* the parsed page
    ex_rules,                    \* ContentExtractor.content_selectors
    ex_remove,                   \* ContentExtractor.remove_elements
    ex_title_selector,           \* ContentExtractor.chapter_title_selector
    ex_result,                   \* the pair returned by extract_content
    fn_pc,                       \* idle, ready, done
    fn_title,                    \* the novel title
    fn_output,                   \* args.output after lines 112-117
    fn_option,                   \* the --output option of the command line
    ep_pc,                       \* idle, new, added, done
    ep_cover_url,                \* EpubGenerator.cover_image_url
    ep_image,                    \* what fetch_image_bytes gives for the cover
    ep_input,                    \* the list passed to add_chapters
    ep_toc,                      \* titles of toc_items
    ep_cover,                    \* the cover item of the book, if any
    ep_written,                  \* write_epub produced the file
    ep_raised                    \* generate_epub raised

extract_vars == <<ex_pc, ex_doc, ex_rules, ex_remove, ex_title_selector, ex_result>>

filename_vars == <<fn_pc, fn_title, fn_output, fn_option>>

epub_vars == <<ep_pc, ep_cover_url, ep_image, ep_input, ep_toc, ep_cover, ep_written, ep_raised>>

side_vars == <<extract_vars, filename_vars, epub_vars>>

vars == <<main_vars, side_vars>>

ExtractIdle ==
    /\ ex_pc = "idle"
    /\ ex_doc = <<>>
    /\ ex_rules = <<>>
    /\ ex_remove = <<>>
    /\ ex_title_selector = ""
    /\ ex_result = [title |-> [kind |-> "none", node |-> 0],
                    content |-> [kind |-> "none", root |-> 0, nodes |-> {}]]

FilenameIdle ==
    /\ fn_pc = "idle"
    /\ fn_title = <<>>
    /\ fn_output = <<>>
    /\ fn_option = [given |-> FALSE, value |-> <<>>]

EpubIdle ==
    /\ ep_pc = "idle"
    /\ ep_cover_url = [kind |-> "none", ext |-> ""]
    /\ ep_image = "none"
    /\ ep_input = <<>>
    /\ ep_toc = <<>>
    /\ ep_cover = "none"
    /\ ep_written = FALSE
    /\ ep_raised = "none"

Init ==
    /\ \E c \in Configs : url_pattern = c.pattern /\ start_url = c.start
    /\ config \in ConfigShapes
    /\ increment_by \in Increments
    /\ empty_chapter_threshold \in Thresholds
    /\ pc = "config"
    /\ current_chapter_url = <<>>
    /\ chapter_number = 0
    /\ processed_urls = {}
    /\ chapter_contents = <<>>
    /\ consecutive_empty_chapters = 0
    /\ chapter_html = FetchNone
    /\ next_url = NavNone
    /\ fetched = <<>>
    /\ stop_reason = "running"
    /\ generator_calls = 0
    /\ generator_input = <<>>
    /\ toc_items = <<>>
    /\ written = FALSE
    /\ exit_status = -1
    /\ ExtractIdle
    /\ FilenameIdle
    /\ EpubIdle

\* lines 84-106: the validation of the loaded configuration
LoadConfig ==
    /\ pc = "config"
    /\ IF ConfigValid(config)
       THEN pc' = "setup" /\ UNCHANGED <<stop_reason, exit_status>>
       ELSE pc' = "exited" /\ stop_reason' = "config-error" /\ exit_status' = 1
    /\ UNCHANGED <<side_vars, config_vars, loop_vars, fetched, builder_vars>>

\* lines 132-149: loader, navigator and extractor are built and the loop
\* variables set; an exception of a constructor exits at lines 208-210
SetUp ==
    /\ pc = "setup"
    /\ IF ExtractorRejects(config)
       THEN /\ pc' = "exited"
            /\ stop_reason' = "config-error"
            /\ exit_status' = 1
            /\ UNCHANGED <<current_chapter_url, chapter_number>>
       ELSE /\ pc' = "guard"
            /\ current_chapter_url' = start_url
            /\ chapter_number' = 1
            /\ UNCHANGED <<stop_reason, exit_status>>
    /\ UNCHANGED <<side_vars, config_vars, processed_urls, chapter_contents, consecutive_empty_chapters,
                   chapter_html, next_url, fetched, builder_vars>>

\* the loop-guard without its membership test
AlreadyProcessed_never(u, processed) == FALSE

\* line 152: the membership test of the loop-guard
AlreadyProcessed(u, processed) == u \in processed

\* the set holding the current URL alone
MarkProcessed_only(u, processed) == {u}

\* line 155: processed_urls.add(current_chapter_url)
MarkProcessed(u, processed) == processed \cup {u}

\* the threshold test with > in place of >=
StreakExhausted_strict(streak, threshold) == streak > threshold

\* a threshold test that makes every content-less page fatal
StreakExhausted_always(streak, threshold) == TRUE

\* a streak test that never ends the loop
StreakExhausted_never(streak, threshold) == FALSE

\* line 177: the threshold test of the empty streak
StreakExhausted(streak, threshold) == streak >= threshold

\* lines 151-157: the loop condition and the loop-guard
LoopGuard ==
    /\ pc = "guard"
    /\ IF current_chapter_url = <<>>
       THEN /\ pc' = "finish"
            /\ stop_reason' = "no-url"
            /\ UNCHANGED processed_urls
       ELSE IF AlreadyProcessed(current_chapter_url, processed_urls)
       THEN /\ pc' = "finish"
            /\ stop_reason' = "url-loop"
            /\ UNCHANGED processed_urls
       ELSE /\ pc' = "fetch"
            /\ processed_urls' = MarkProcessed(current_chapter_url, processed_urls)
            /\ UNCHANGED stop_reason
    /\ UNCHANGED <<side_vars, config_vars, current_chapter_url, chapter_number, chapter_contents,
                   consecutive_empty_chapters, chapter_html, next_url, fetched,
                   builder_vars, exit_status>>

\* line 176 without line 173: the streak is never reset
streak_after_noreset(streak, has_content) == IF has_content THEN streak ELSE streak + 1

\* lines 173 and 176: the empty streak after a page
streak_after(streak, has_content) == IF has_content THEN 0 ELSE streak + 1

\* the number left as it is
next_chapter_number_same(n) == n

\* line 187
next_chapter_number(n) == n + 1

\* lines 159-161 and 188-190: the fetch and the test of its result, the
\* result being one of results
FetchStep(results) ==
    /\ pc = "fetch"
    /\ Len(fetched) < MaxFetches
    /\ \E html \in results :
         /\ chapter_html' = html
         /\ fetched' = Append(fetched, [url |-> current_chapter_url, html |-> html])
         /\ IF HtmlTruthy(html)
            THEN pc' = "extract" /\ UNCHANGED stop_reason
            ELSE pc' = "finish" /\ stop_reason' = "fetch-failed"
    /\ UNCHANGED <<side_vars, config_vars, current_chapter_url, chapter_number, processed_urls,
                   chapter_contents, consecutive_empty_chapters, next_url,
                   builder_vars, exit_status>>

FetchPage == FetchStep(FetchResults)

\* lines 162-180: extraction, the record and the empty streak
ExtractChapter ==
    /\ pc = "extract"
    /\ LET r == extract_content(chapter_html, current_chapter_url)
       IN  IF r.content.kind = "html"
           THEN /\ chapter_contents' = Append(chapter_contents,
                        ChapterRecord(chapter_title_to_use(r.title, chapter_number), r.content))
                /\ consecutive_empty_chapters' = streak_after(consecutive_empty_chapters, TRUE)
                /\ pc' = "advance"
                /\ UNCHANGED stop_reason
           ELSE /\ consecutive_empty_chapters' = streak_after(consecutive_empty_chapters, FALSE)
                /\ UNCHANGED chapter_contents
                /\ IF StreakExhausted(consecutive_empty_chapters', empty_chapter_threshold)
                   THEN pc' = "finish" /\ stop_reason' = "empty-streak"
                   ELSE pc' = "advance" /\ UNCHANGED stop_reason
    /\ UNCHANGED <<side_vars, config_vars, current_chapter_url, chapter_number, processed_urls,
                   chapter_html, next_url, fetched, builder_vars, exit_status>>

\* lines 182-187, and lines 208-210 when the navigator raises
Advance ==
    /\ pc = "advance"
    /\ \E limit \in NavigatorLimits(url_pattern, increment_by, current_chapter_url) :
         next_url' = get_next_chapter_url(url_pattern, increment_by, current_chapter_url, limit)
    /\ CASE next_url'.kind = "raise" ->
              /\ pc' = "exited"
              /\ stop_reason' = "exception"
              /\ exit_status' = 1
              /\ UNCHANGED <<current_chapter_url, chapter_number>>
         [] next_url'.kind = "none" ->
              /\ pc' = "finish"
              /\ stop_reason' = "navigator-end"
              /\ UNCHANGED <<current_chapter_url, chapter_number, exit_status>>
         [] OTHER ->
              /\ pc' = "guard"
              /\ current_chapter_url' = next_url'.url
              /\ chapter_number' = next_chapter_number(chapter_number)
              /\ UNCHANGED <<stop_reason, exit_status>>
    /\ UNCHANGED <<side_vars, config_vars, processed_urls, chapter_contents,
                   consecutive_empty_chapters, chapter_html, fetched, builder_vars>>

\* epub.write_epub of ebooklib (line 139): the file is written, or an
\* exception comes out of the call, or the library keeps an I/O error of an
\* unwritable path to itself and returns without a file
WriteOutcomes == {"written", "raised", "swallowed"}

\* lines 192-212: the document builder, or the no-op with no chapters;
\* when write_epub raises, generate_epub raises again (lines 208-210)
Finish ==
    /\ pc = "finish"
    /\ pc' = "exited"
    /\ IF chapter_contents # <<>>
       THEN /\ generator_calls' = generator_calls + 1
            /\ generator_input' = chapter_contents
            /\ toc_items' = add_chapters(chapter_contents)
            /\ \E outcome \in WriteOutcomes :
                 /\ written' = (outcome = "written")
                 /\ exit_status' = IF outcome = "raised" THEN 1 ELSE 0
       ELSE /\ exit_status' = 0
            /\ UNCHANGED builder_vars
    /\ UNCHANGED <<side_vars, config_vars, loop_vars, fetched, stop_reason>>

Next == LoadConfig \/ SetUp \/ LoopGuard \/ FetchPage \/ ExtractChapter \/ Advance \/ Finish

Spec == Init /\ [][Next]_vars

(***************************************************************************)
(* Quantities of a run used by the properties.                             *)
(***************************************************************************)
FetchedUrls == {fetched[i].url : i \in 1..Len(fetched)}

\* the i-th fetch succeeded and no content selector matched in the page
EmptyFetch(i) == fetched[i].html.kind = "page" /\ ~fetched[i].html.has_content

\* the i-th fetch succeeded and the page had extractable content
ContentFetch(i) == fetched[i].html.kind = "page" /\ fetched[i].html.has_content

\* number of content-less pages at the end of the first n fetches
RECURSIVE TrailingEmpty(_)
TrailingEmpty(n) == IF n = 0 \/ ~EmptyFetch(n) THEN 0 ELSE 1 + TrailingEmpty(n - 1)

ContentFetches == {i \in 1..Len(fetched) : ContentFetch(i)}

LoopEnded == pc \in {"finish", "exited"}

\* the pattern matches the URL but int() of the number group fails
ParseFailure(p, u) ==
    LET m == Search(p, u)
    IN  /\ m.found
        /\ m.ngroups > 0
        /\ ~NumberGroup(m).took_part \/ ~IntLiteral(NumberGroup(m).text)

\* the pattern matches the URL and the number group is an integer literal
ParsedNumber(p, u) ==
    LET m == Search(p, u)
    IN  /\ m.found
        /\ m.ngroups > 0
        /\ NumberGroup(m).took_part
        /\ IntLiteral(NumberGroup(m).text)

ChapterNumberOf(p, u) == PyInt(NumberGroup(Search(p, u)).text)

(***************************************************************************)
(* C1 (as claimed): for every threshold T, once a streak of content-less   *)
(* pages has been fetched and is at least T pages long, the loop has ended *)
(* with the empty streak exhausted and the streak is exactly T pages long, *)
(* the counter equals T and no record was added during the streak.         *)
(***************************************************************************)
C1_EveryThresholdStopsAtT ==
    LET T == empty_chapter_threshold
        t == TrailingEmpty(Len(fetched))
    IN  (t >= 1 /\ t >= T /\ pc # "extract") =>
            /\ t = T
            /\ LoopEnded
            /\ stop_reason = "empty-streak"
            /\ consecutive_empty_chapters = T
            /\ Len(chapter_contents) = Cardinality(ContentFetches)

\* the number of content-less pages in a row that ends the loop: the test of
\* line 177 comes after the increment, so even a threshold of 0 takes one page
StreakToStop(T) == IF T >= 1 THEN T ELSE 1

(***************************************************************************)
(* C1: for every threshold T, once the last max(T, 1) fetched pages were   *)
(* all fetched successfully without extractable content, the loop has      *)
(* ended with the empty streak exhausted: the streak is exactly max(T, 1)  *)
(* pages long, the counter equals that number, the records are those of    *)
(* the content pages only (none was added during the streak), and no fetch *)
(* follows.  With T >= 1 that is the T-th page; with T = 0 it is the first *)
(* content-less page.                                                      *)
(***************************************************************************)
C1_EmptyStreakTerminates ==
    LET T == empty_chapter_threshold
        t == TrailingEmpty(Len(fetched))
    IN  (t >= StreakToStop(T) /\ pc # "extract") =>
            /\ t = StreakToStop(T)
            /\ LoopEnded
            /\ stop_reason = "empty-streak"
            /\ consecutive_empty_chapters = StreakToStop(T)
            /\ Len(chapter_contents) = Cardinality(ContentFetches)

C1_Witness ==
    /\ pc = "exited"
    /\ stop_reason = "empty-streak"
    /\ empty_chapter_threshold >= 2
    /\ TrailingEmpty(Len(fetched)) = empty_chapter_threshold
    /\ Len(fetched) > empty_chapter_threshold

C1_WitnessZeroThreshold ==
    /\ pc = "exited"
    /\ stop_reason = "empty-streak"
    /\ empty_chapter_threshold = 0
    /\ TrailingEmpty(Len(fetched)) = 1
    /\ Len(fetched) = 2

\* the first pass of the loop under a limit of 640 digits: int() of the
\* 641 digits raises ValueError and the navigator returns None
LimitWitnessRefused ==
    /\ pc = "exited"
    /\ stop_reason = "navigator-end"
    /\ current_chapter_url = LongNumberUrl
    /\ Len(fetched) = 1

\* the same pass without a limit: the number is 1 and the loop goes on
LimitWitnessAccepted ==
    /\ Len(fetched) >= 2
    /\ fetched[1].url = LongNumberUrl
    /\ fetched[2].url = <<"x", "/", "c", "-", "2">>

(***************************************************************************)
(* C2: no URL is fetched twice in a run: the fetch log has no repeated     *)
(* URL, the URL about to be fetched was never fetched before, and a run    *)
(* stopped at the loop-guard stopped on a URL that was fetched earlier.    *)
(***************************************************************************)
C2_NoUrlFetchedTwice ==
    /\ \A i, j \in 1..Len(fetched) : i # j => fetched[i].url # fetched[j].url
    /\ pc = "fetch" => current_chapter_url \notin FetchedUrls
    /\ stop_reason = "url-loop" => LoopEnded /\ current_chapter_url \in FetchedUrls

C2_Witness ==
    /\ pc = "exited"
    /\ stop_reason = "url-loop"
    /\ next_url.kind = "url"
    /\ next_url.url \in FetchedUrls
    /\ Len(fetched) >= 2

(***************************************************************************)
(* C3 (as claimed): a run whose traversal ended through an expected        *)
(* condition, a failure to parse the chapter number included, exits with   *)
(* status 0 unless writing the document failed, and with at least one      *)
(* record the document builder was invoked exactly once with all records.  *)
(***************************************************************************)
C3_ExpectedEndIsClean ==
    (pc = "exited" /\ (stop_reason \in {"url-loop", "fetch-failed", "empty-streak", "navigator-end"}
                       \/ ParseFailure(url_pattern, current_chapter_url))) =>
        /\ exit_status = 0 \/ (generator_calls = 1 /\ ~written)
        /\ chapter_contents # <<>> => generator_calls = 1 /\ generator_input = chapter_contents

(***************************************************************************)
(* C4: when the first k >= 1 URLs gave pages with content and the fetch of *)
(* URL k+1 failed, the chapter list has k records, the i-th with the       *)
(* content of the i-th visited URL, and the table of contents has k        *)
(* entries carrying the titles of the records in the same order.           *)
(***************************************************************************)
C4_ChaptersAndTocInVisitOrder ==
    LET k == Len(fetched) - 1
    IN  (/\ pc = "exited"
         /\ stop_reason = "fetch-failed"
         /\ k >= 1
         /\ \A i \in 1..k : ContentFetch(i)) =>
            /\ Len(chapter_contents) = k
            /\ \A i \in 1..k : chapter_contents[i].html_content = PageContent(fetched[i].url)
            /\ Len(toc_items) = k
            /\ \A i \in 1..k : toc_items[i] = chapter_contents[i].title

C4_Witness ==
    /\ pc = "exited"
    /\ stop_reason = "fetch-failed"
    /\ Len(fetched) = 4
    /\ \A i \in 1..3 : ContentFetch(i)
    /\ fetched[1].html.title_tag = "text"
    /\ fetched[2].html.title_tag = "absent"
    /\ Len(toc_items) = 3

(***************************************************************************)
(* C5 (as claimed): when the navigator is asked for the URL after a URL    *)
(* in which the pattern locates the chapter number n, and the increment d  *)
(* is not 0 and n + d is not negative, it returns a URL in which the       *)
(* pattern locates the chapter number n + d.                               *)
(***************************************************************************)
C5_NumberIncremented ==
    \A limit \in NavigatorLimits(url_pattern, increment_by, current_chapter_url) :
    LET p == url_pattern
        u == current_chapter_url
        d == increment_by
        r == get_next_chapter_url(p, d, u, limit)
    IN  (/\ pc = "advance"
         /\ ParsedNumber(p, u)
         /\ d # 0
         /\ ChapterNumberOf(p, u) + d >= 0) =>
            /\ r.kind = "url"
            /\ ParsedNumber(p, r.url)
            /\ ChapterNumberOf(p, r.url) = ChapterNumberOf(p, u) + d

(***************************************************************************)
(* C6: for a URL in which the pattern does not match the navigator returns *)
(* None; when the navigator returns None the loop ends without a fetch,    *)
(* and after the loop has ended nothing is fetched any more.               *)
(***************************************************************************)
C6_NoMatchEndsTraversal ==
    /\ [](~Search(url_pattern, current_chapter_url).found =>
            \A limit \in NavigatorLimits(url_pattern, increment_by, current_chapter_url) :
                get_next_chapter_url(url_pattern, increment_by, current_chapter_url, limit) = NavNone)
    /\ [][(pc = "advance" /\ ~Search(url_pattern, current_chapter_url).found) =>
            (/\ next_url' = NavNone
             /\ pc' = "finish"
             /\ stop_reason' = "navigator-end"
             /\ fetched' = fetched)]_vars
    /\ [][LoopEnded => (LoopEnded' /\ fetched' = fetched)]_vars

C6_Witness ==
    /\ pc = "exited"
    /\ stop_reason = "navigator-end"
    /\ ~Search(url_pattern, current_chapter_url).found
    /\ Len(fetched) >= 2
    /\ fetched[Len(fetched)].url = current_chapter_url

(***************************************************************************)
(* C7: the navigator never returns its input: a returned URL differs from  *)
(* the current URL, a computed URL equal to the current URL gives None,    *)
(* and the URL the loop advances to differs from the URL just fetched.     *)
(***************************************************************************)
C7_NeverReturnsInput ==
    \A limit \in NavigatorLimits(url_pattern, increment_by, current_chapter_url) :
    LET p == url_pattern
        u == current_chapter_url
        d == increment_by
        r == get_next_chapter_url(p, d, u, limit)
    IN  /\ r.kind = "url" => r.url # u
        /\ (ParsedNumber(p, u) /\ BuildNextUrl(Search(p, u), u, d) = u) => r = NavNone
        /\ (pc = "guard" /\ Len(fetched) >= 1) => current_chapter_url # fetched[Len(fetched)].url

C7_Witness ==
    /\ pc = "exited"
    /\ stop_reason = "navigator-end"
    /\ next_url = NavNone
    /\ ParsedNumber(url_pattern, current_chapter_url)
    /\ BuildNextUrl(Search(url_pattern, current_chapter_url), current_chapter_url,
                    increment_by) = current_chapter_url

(***************************************************************************)
(* C8 (as claimed): when the navigator was called on a URL that the        *)
(* pattern matches and whose number group cannot be parsed as an integer,  *)
(* it returned None and the traversal ended normally as navigator-end.     *)
(***************************************************************************)
C8_ParseFailureGivesNone ==
    (/\ stop_reason \in {"navigator-end", "exception"}
     /\ ParseFailure(url_pattern, current_chapter_url)) =>
        /\ next_url = NavNone
        /\ stop_reason = "navigator-end"
        /\ exit_status # 1 \/ generator_calls = 1

(***************************************************************************)
(* C9: the extraction of a fetched page without content adds exactly one   *)
(* to the empty streak, and while the streak stays below the threshold the *)
(* loop goes on to ask the navigator for the next URL, with no exit.       *)
(***************************************************************************)
C9_ExtractionMissCounted ==
    [][(pc = "extract" /\ ~chapter_html.has_content) =>
          (/\ consecutive_empty_chapters' = consecutive_empty_chapters + 1
           /\ chapter_contents' = chapter_contents
           /\ consecutive_empty_chapters' < empty_chapter_threshold =>
                 (pc' = "advance" /\ stop_reason' = "running" /\ exit_status' = -1))]_vars

C9_Witness ==
    /\ pc = "fetch"
    /\ consecutive_empty_chapters >= 1
    /\ consecutive_empty_chapters < empty_chapter_threshold
    /\ EmptyFetch(Len(fetched))
    /\ current_chapter_url # fetched[Len(fetched)].url

(***************************************************************************)
(* C10 (as claimed): at the end of a run the document builder was invoked  *)
(* exactly when the chapter list is not empty, and with an empty list no   *)
(* document was written and the exit status is 0.                          *)
(***************************************************************************)
C10_BuilderIffChapters ==
    (pc = "exited" /\ stop_reason # "config-error") =>
        /\ generator_calls >= 1 <=> chapter_contents # <<>>
        /\ chapter_contents = <<>> => (~written /\ exit_status = 0)

(***************************************************************************)
(* C11: with a configuration error (a required key missing, an empty       *)
(* content_selectors list, or no url_pattern rule) the run never leaves    *)
(* the start-up: no page is fetched, no document builder is made, and the  *)
(* run exits with status 1.                                                *)
(***************************************************************************)
ConfigurationError ==
    \/ RequiredKeys # config.keys
    \/ config.content_selectors_empty
    \/ ~config.has_url_pattern

C11_ConfigErrorAborts ==
    ConfigurationError =>
        /\ pc \in {"config", "setup", "exited"}
        /\ fetched = <<>>
        /\ processed_urls = {}
        /\ generator_calls = 0
        /\ ~written
        /\ pc = "exited" => (exit_status = 1 /\ stop_reason = "config-error")

C11_Witness ==
    /\ pc = "exited"
    /\ exit_status = 1
    /\ config.keys = RequiredKeys
    /\ config.has_url_pattern
    /\ config.content_selectors_empty

(***************************************************************************)
(* The main variables while a component is exercised on its own.           *)
(***************************************************************************)
MainIdle ==
    /\ config = [keys |-> RequiredKeys, content_selectors_empty |-> FALSE,
                 has_url_pattern |-> TRUE]
    /\ url_pattern = Pat("seg_num", <<>>, <<>>)
    /\ start_url = <<>>
    /\ increment_by = 1
    /\ empty_chapter_threshold = 3
    /\ pc = "idle"
    /\ current_chapter_url = <<>>
    /\ chapter_number = 0
    /\ processed_urls = {}
    /\ chapter_contents = <<>>
    /\ consecutive_empty_chapters = 0
    /\ chapter_html = FetchNone
    /\ next_url = NavNone
    /\ fetched = <<>>
    /\ stop_reason = "running"
    /\ generator_calls = 0
    /\ generator_input = <<>>
    /\ toc_items = <<>>
    /\ written = FALSE
    /\ exit_status = -1

(***************************************************************************)
(* ContentExtractor on a parsed page.  The page is the sequence of its     *)
(* elements in document order; an element has a class and a parent (0 for  *)
(* an element directly under the body).  A selector is a class name, ""    *)
(* stands for a missing value.                                             *)
(***************************************************************************)
Classes == {"a", "b", "ad"}

RECURSIVE AncestorsOrSelf(_, _)
AncestorsOrSelf(doc, i) ==
    IF i = 0 THEN {} ELSE {i} \cup AncestorsOrSelf(doc, doc[i].parent)

\* the parents are consistent with document order
WellFormed(doc) ==
    \A i \in 1..Len(doc) :
        IF i = 1 THEN doc[i].parent = 0
        ELSE doc[i].parent \in {0} \cup AncestorsOrSelf(doc, i - 1)

Docs ==
    {d \in UNION {[1..n -> [cls : Classes, parent : 0..(MaxNodes - 1)]] : n \in 0..MaxNodes} :
        WellFormed(d)}

\* the element i with everything below it
Subtree(doc, i) == {j \in 1..Len(doc) : i \in AncestorsOrSelf(doc, j)}

\* soup.select_one(selector): the first match in document order, 0 for None
select_one(doc, sel) ==
    LET hits == {i \in 1..Len(doc) : doc[i].cls = sel}
    IN  IF hits = {} THEN 0 ELSE CHOOSE i \in hits : \A j \in hits : i <= j

\* a selection that gives only the first matching element below the tag
select_first(doc, alive, root, sel) ==
    LET hits == {j \in alive : j # root /\ root \in AncestorsOrSelf(doc, j) /\ doc[j].cls = sel}
    IN  IF hits = {} THEN {} ELSE {CHOOSE i \in hits : \A j \in hits : i <= j}

\* content_tag.select(selector): the matching elements still below the tag
select(doc, alive, root, sel) ==
    {j \in alive : j # root /\ root \in AncestorsOrSelf(doc, j) /\ doc[j].cls = sel}

\* _remove_unwanted_elements: the elements left below the tag (lines 94-97)
RECURSIVE remove_unwanted_elements(_, _, _, _)
remove_unwanted_elements(doc, root, removes, alive) ==
    IF removes = <<>> THEN alive
    ELSE LET gone == UNION {Subtree(doc, j) : j \in select(doc, alive, root, Head(removes))}
         IN  remove_unwanted_elements(doc, root, Tail(removes), alive \ gone)

RuleChoices ==
    { [type |-> "css_selector", selector |-> "a"],
      [type |-> "css_selector", selector |-> "b"],
      [type |-> "xpath", selector |-> "a"],
      [type |-> "css_selector", selector |-> ""] }

RuleLists == {<<r>> : r \in RuleChoices} \cup {<<r, q>> : r \in RuleChoices, q \in RuleChoices}

RemoveLists == {<<>>, <<"ad">>, <<"b">>, <<"ad", "b">>}

TitleSelectors == {"", "b"}

\* the loop without its break: the last rule that finds a tag wins
RECURSIVE main_content_tag_last(_, _)
main_content_tag_last(doc, rules) ==
    IF rules = <<>> THEN 0
    ELSE LET r == Head(rules)
             later == main_content_tag_last(doc, Tail(rules))
         IN  IF later # 0 THEN later
             ELSE IF r.type = "css_selector" /\ r.selector # ""
             THEN select_one(doc, r.selector)
             ELSE 0

\* the loop of lines 62-79: the tag of the first rule that finds one, 0 for None
RECURSIVE main_content_tag(_, _)
main_content_tag(doc, rules) ==
    IF rules = <<>> THEN 0
    ELSE LET r == Head(rules)
         IN  IF r.type = "" \/ r.selector = "" THEN main_content_tag(doc, Tail(rules))
             ELSE IF r.type = "css_selector"
             THEN IF select_one(doc, r.selector) # 0 THEN select_one(doc, r.selector)
                  ELSE main_content_tag(doc, Tail(rules))
             ELSE main_content_tag(doc, Tail(rules))

DocNoTitle == [kind |-> "none", node |-> 0]

DocNoContent == [kind |-> "none", root |-> 0, nodes |-> {}]

\* extract_content on a parsed page (lines 48-88): the title is the text of
\* the title tag, the content the serialized tag with the elements left in it
extract_from_document(doc, rules, removes, title_selector) ==
    LET title_tag == IF title_selector = "" THEN 0 ELSE select_one(doc, title_selector)
        extracted_title == IF title_tag = 0 THEN DocNoTitle
                           ELSE [kind |-> "text", node |-> title_tag]
        tag == main_content_tag(doc, rules)
    IN  IF tag = 0 THEN [title |-> extracted_title, content |-> DocNoContent]
        ELSE [title |-> extracted_title,
              content |-> [kind |-> "html", root |-> tag,
                           nodes |-> remove_unwanted_elements(doc, tag, removes,
                                                               Subtree(doc, tag))]]

ExtractInit ==
    /\ ex_pc = "ready"
    /\ ex_doc \in Docs
    /\ ex_rules \in RuleLists
    /\ ex_remove \in RemoveLists
    /\ ex_title_selector \in TitleSelectors
    /\ ex_result = [title |-> DocNoTitle, content |-> DocNoContent]
    /\ MainIdle
    /\ FilenameIdle
    /\ EpubIdle

\* one call of extract_content
ExtractCall ==
    /\ ex_pc = "ready"
    /\ ex_pc' = "done"
    /\ ex_result' = extract_from_document(ex_doc, ex_rules, ex_remove, ex_title_selector)
    /\ UNCHANGED <<ex_doc, ex_rules, ex_remove, ex_title_selector>>
    /\ UNCHANGED <<main_vars, filename_vars, epub_vars>>

ExtractSpec == ExtractInit /\ [][ExtractCall]_vars

(***************************************************************************)
(* C12: the tag returned as content is the first match of the earliest     *)
(* well-formed css_selector rule that matches anything in the page; rules  *)
(* after it have no influence; when no such rule matches the content is    *)
(* None and the title is still what the title selector finds.              *)
(***************************************************************************)
MatchingRules ==
    {k \in 1..Len(ex_rules) :
        /\ ex_rules[k].type = "css_selector"
        /\ \E i \in 1..Len(ex_doc) : ex_doc[i].cls = ex_rules[k].selector}

C12_FirstMatchingRuleWins ==
    ex_pc = "done" =>
        /\ MatchingRules = {} => ex_result.content = DocNoContent
        /\ MatchingRules # {} =>
             LET k == CHOOSE a \in MatchingRules : \A b \in MatchingRules : a <= b
             IN  /\ ex_result.content.kind = "html"
                 /\ ex_doc[ex_result.content.root].cls = ex_rules[k].selector
                 /\ \A i \in 1..(ex_result.content.root - 1) :
                       ex_doc[i].cls # ex_rules[k].selector
        /\ (ex_title_selector # "" /\ \E i \in 1..Len(ex_doc) : ex_doc[i].cls = ex_title_selector)
             <=> ex_result.title.kind = "text"

C12_Witness ==
    /\ ex_pc = "done"
    /\ Len(ex_rules) = 2
    /\ MatchingRules = {1, 2}
    /\ ex_rules[1].selector = "b"
    /\ ex_rules[2].selector = "a"
    /\ select_one(ex_doc, "a") < select_one(ex_doc, "b")
    /\ ex_result.content.root = select_one(ex_doc, "b")

C12_WitnessNoContent ==
    /\ ex_pc = "done"
    /\ ex_result.content = DocNoContent
    /\ ex_result.title.kind = "text"

(***************************************************************************)
(* C13: in the returned content no element below the content tag matches a *)
(* remove selector, and an element of the content tag is kept exactly when *)
(* neither it nor an element between it and the content tag matches one.   *)
(***************************************************************************)
RemoveSelectors == {ex_remove[k] : k \in 1..Len(ex_remove)}

\* j lies below root and it or an element between it and root is unwanted
InUnwantedSubtree(root, j) ==
    \E a \in AncestorsOrSelf(ex_doc, j) :
        /\ a # root
        /\ root \in AncestorsOrSelf(ex_doc, a)
        /\ ex_doc[a].cls \in RemoveSelectors

C13_UnwantedElementsRemoved ==
    (ex_pc = "done" /\ ex_result.content.kind = "html") =>
        LET root == ex_result.content.root
            kept == ex_result.content.nodes
        IN  /\ root \in kept
            /\ \A j \in kept : root \in AncestorsOrSelf(ex_doc, j)
            /\ \A j \in kept : j # root => ex_doc[j].cls \notin RemoveSelectors
            /\ \A j \in 1..Len(ex_doc) :
                  (root \in AncestorsOrSelf(ex_doc, j) /\ ~InUnwantedSubtree(root, j)) => j \in kept
            /\ \A j \in kept : ~InUnwantedSubtree(root, j)

C13_Witness ==
    /\ ex_pc = "done"
    /\ ex_result.content.kind = "html"
    /\ Len(ex_doc) = 3
    /\ ex_result.content.root = 1
    /\ ex_doc[2].cls = "ad" /\ ex_doc[2].parent = 1
    /\ ex_doc[3].cls = "a" /\ ex_doc[3].parent = 1
    /\ "ad" \in RemoveSelectors
    /\ ex_result.content.nodes = {1, 3}

\* the fetch whose page gave the j-th record of chapter_contents
RecordFetch(j) ==
    CHOOSE i \in ContentFetches : Cardinality({k \in ContentFetches : k <= i}) = j

(***************************************************************************)
(* C14 as stated: a record's title is the extracted title whenever the     *)
(* page has a title element, an empty or whitespace-only text included,    *)
(* and "Chapter n" with the chapter number of the iteration only when the  *)
(* page has no title element.                                              *)
(***************************************************************************)
C14_TitleWheneverFound ==
    \A j \in 1..Len(chapter_contents) :
        LET i == RecordFetch(j)
            tag == fetched[i].html.title_tag
        IN  /\ tag = "text" => chapter_contents[j].title = PageTitle(fetched[i].url)
            /\ tag = "blank" => chapter_contents[j].title = BlankTitle
            /\ tag = "absent" => chapter_contents[j].title = DefaultTitle(i)

(***************************************************************************)
(* C14 amended: a record's title is the extracted title when the title     *)
(* element has non-empty text, and "Chapter n" with the chapter number of  *)
(* the iteration when the page has no title element or its text is empty   *)
(* after trimming.                                                         *)
(***************************************************************************)
C14_TitleWhenNonEmpty ==
    \A j \in 1..Len(chapter_contents) :
        LET i == RecordFetch(j)
            tag == fetched[i].html.title_tag
        IN  /\ tag = "text" => chapter_contents[j].title = PageTitle(fetched[i].url)
            /\ tag \in {"blank", "absent"} =>
                  chapter_contents[j].title = [kind |-> "default", url |-> <<>>, n |-> i]

C14_Witness ==
    /\ Len(chapter_contents) = 3
    /\ fetched[1].html = [kind |-> "page", title_tag |-> "absent", has_content |-> FALSE]
    /\ fetched[2].html.title_tag = "blank"
    /\ chapter_contents[1].title = [kind |-> "default", url |-> <<>>, n |-> 2]
    /\ fetched[3].html.title_tag = "text"
    /\ chapter_contents[2].title.kind = "text"
    /\ fetched[4].html.title_tag = "absent"
    /\ chapter_contents[3].title = [kind |-> "default", url |-> <<>>, n |-> 4]

(***************************************************************************)
(* EpubGenerator on its own: the cover URL given at construction, the      *)
(* outcome of fetch_image_bytes, the records given to add_chapters.        *)
(***************************************************************************)
\* what os.path.splitext finds at the end of the cover URL's path
UrlExtensions == {"", ".jpg", ".JPG", ".jpeg", ".png", ".PNG", ".gif", ".webp"}

CoverUrls == {[kind |-> "none", ext |-> ""]} \cup {[kind |-> "url", ext |-> e] : e \in UrlExtensions}

\* fetch_image_bytes: None after a RequestException, else the body, maybe empty
ImageResults == {"none", "empty", "bytes"}

\* str.lower() on the extensions above
Lower(e) == CASE e = ".JPG" -> ".jpg" [] e = ".PNG" -> ".png" [] OTHER -> e

\* lines 72-73: the extension, .jpg when the path has none, .jpeg as .jpg
CoverExtension(e) ==
    LET ext == IF Lower(e) = "" THEN ".jpg" ELSE Lower(e)
    IN  IF ext = ".jpeg" THEN ".jpg" ELSE ext

\* a validation that lets every format through
SupportedFormat_any(ext) == TRUE

\* line 77
SupportedFormat(ext) == ext \in {".jpg", ".png", ".gif"}

\* _add_cover_image: the extension of the cover file set on the book
\* ('cover' + ext), "none" when no cover is set
add_cover_image(cover_image_url, image_bytes) ==
    IF cover_image_url.kind = "none" THEN "none"
    ELSE IF image_bytes # "bytes" THEN "none"
    ELSE IF ~SupportedFormat(CoverExtension(cover_image_url.ext)) THEN "none"
    ELSE CoverExtension(cover_image_url.ext)

ChapterInputs ==
    {ChapterRecord(t, c) : t \in {PageTitle(<<"u">>), DefaultTitle(1)},
                           c \in {PageContent(<<"u">>), NoContent}}

ChapterLists == UNION {[1..n -> ChapterInputs] : n \in 0..MaxChapters}

BuilderInit ==
    /\ ep_pc = "ready"
    /\ ep_cover_url \in CoverUrls
    /\ ep_image \in ImageResults
    /\ ep_input \in ChapterLists
    /\ ep_toc = <<>>
    /\ ep_cover = "none"
    /\ ep_written = FALSE
    /\ ep_raised = "none"
    /\ MainIdle
    /\ ExtractIdle
    /\ FilenameIdle

\* generator.add_chapters(chapter_contents)
AddChapters ==
    /\ ep_pc = "ready"
    /\ ep_pc' = "added"
    /\ ep_toc' = add_chapters(ep_input)
    /\ UNCHANGED <<ep_cover_url, ep_image, ep_input, ep_cover, ep_written, ep_raised>>
    /\ UNCHANGED <<main_vars, extract_vars, filename_vars>>

\* generator.generate_epub(): the cover, then write_epub, which may fail and
\* whose exception is raised again (lines 138-143)
GenerateEpub ==
    /\ ep_pc = "added"
    /\ ep_pc' = "done"
    /\ ep_cover' = add_cover_image(ep_cover_url, ep_image)
    /\ \E outcome \in WriteOutcomes :
         /\ ep_written' = (outcome = "written")
         /\ ep_raised' = IF outcome = "raised" THEN "write" ELSE "none"
    /\ UNCHANGED <<ep_cover_url, ep_image, ep_input, ep_toc>>
    /\ UNCHANGED <<main_vars, extract_vars, filename_vars>>

BuilderNext == AddChapters \/ GenerateEpub

BuilderSpec == BuilderInit /\ [][BuilderNext]_vars

(***************************************************************************)
(* C15: when the cover image cannot be fetched or its format is not        *)
(* supported, the book has no cover, generate_epub raises only when        *)
(* write_epub fails, and the document it writes holds every chapter that   *)
(* was added, in order.                                                    *)
(***************************************************************************)
CoverUnavailable ==
    /\ ep_cover_url.kind = "url"
    /\ \/ ep_image \in {"none", "empty"}
       \/ ep_cover_url.ext \notin {"", ".jpg", ".JPG", ".jpeg", ".png", ".PNG", ".gif"}

ChaptersWithContent == {i \in 1..Len(ep_input) : ep_input[i].html_content.kind = "html"}

C15_CoverFailureIsNotFatal ==
    (ep_pc = "done" /\ CoverUnavailable) =>
        /\ ep_cover = "none"
        /\ ep_raised \in {"none", "write"}
        /\ ep_written => ep_raised = "none"
        /\ Len(ep_toc) = Cardinality(ChaptersWithContent)
        /\ \A i \in ChaptersWithContent :
              ep_toc[Cardinality({k \in ChaptersWithContent : k <= i})] = ep_input[i].title

C15_Witness ==
    /\ ep_pc = "done"
    /\ ep_cover_url = [kind |-> "url", ext |-> ".webp"]
    /\ ep_image = "bytes"
    /\ ep_cover = "none"
    /\ ep_written
    /\ Len(ep_toc) = 2

C15_WitnessFetchFailed ==
    /\ ep_pc = "done"
    /\ ep_cover_url = [kind |-> "url", ext |-> ".png"]
    /\ ep_image = "none"
    /\ ep_cover = "none"
    /\ ep_written
    /\ Len(ep_toc) = 3

C15_WitnessCover ==
    /\ ep_pc = "done"
    /\ ep_cover_url = [kind |-> "url", ext |-> ".jpeg"]
    /\ ep_cover = ".jpg"

(***************************************************************************)
(* _sanitize_filename on novel titles over a small alphabet: a capital and *)
(* a small letter, a digit, the space, the underscore, the hyphen and a    *)
(* punctuation mark.                                                       *)
(***************************************************************************)
TitleChars == {"A", "b", "1", " ", "_", "-", "!"}

Titles == UNION {[1..n -> TitleChars] : n \in 0..MaxTitleLen}

\* str.lower() on one character
LowerChar(c) == IF c = "A" THEN "a" ELSE c

\* the class \w on the characters above and their lower case
IsTitleWord(c) == c \in {"A", "a", "b", "1", "_"}

\* title.lower()
lower(s) == [i \in 1..Len(s) |-> LowerChar(s[i])]

\* filename.replace(' ', '_')
replace_spaces(s) == [i \in 1..Len(s) |-> IF s[i] = " " THEN "_" ELSE s[i]]

\* re.sub(r'[^\w-]', '', filename)
remove_other(s) == SelectSeq(s, LAMBDA c : IsTitleWord(c) \/ c = "-")

\* s without its leading run of ch
RECURSIVE SkipRun(_, _)
SkipRun(s, ch) == IF s # <<>> /\ Head(s) = ch THEN SkipRun(Tail(s), ch) ELSE s

\* re.sub(r'[c]+', 'c', filename): every run of ch becomes one ch
RECURSIVE sub_runs(_, _)
sub_runs(s, ch) ==
    IF s = <<>> THEN <<>>
    ELSE IF Head(s) = ch THEN <<ch>> \o sub_runs(SkipRun(s, ch), ch)
    ELSE <<Head(s)>> \o sub_runs(Tail(s), ch)

RECURSIVE lstrip(_, _)
lstrip(s, chars) == IF s # <<>> /\ Head(s) \in chars THEN lstrip(Tail(s), chars) ELSE s

RECURSIVE rstrip(_, _)
rstrip(s, chars) ==
    IF s # <<>> /\ s[Len(s)] \in chars THEN rstrip(SubSeq(s, 1, Len(s) - 1), chars) ELSE s

\* a strip that leaves the string as it is
strip_none(s, chars) == s

\* filename.strip('_-')
strip(s, chars) == rstrip(lstrip(s, chars), chars)

Epub == <<".", "e", "p", "u", "b">>

_sanitize_filename(title) ==
    strip(sub_runs(sub_runs(remove_other(replace_spaces(lower(title))), "_"), "-"),
          {"_", "-"}) \o Epub

\* line 19
DEFAULT_OUTPUT_FILENAME == <<"o", "u", "t", "p", "u", "t">> \o Epub

\* the command line without --output
NoOption == [given |-> FALSE, value |-> <<>>]

Option(path) == [given |-> TRUE, value |-> path]

\* args.output as argparse sets it (lines 57-63): the option or the default
args_output(option) == IF option.given THEN option.value ELSE DEFAULT_OUTPUT_FILENAME

\* args.output after lines 112-117, the output_path given to EpubGenerator
output_path(option, title) ==
    IF args_output(option) = DEFAULT_OUTPUT_FILENAME THEN _sanitize_filename(title)
    ELSE args_output(option)

\* runs without --output
FilenameInit ==
    /\ fn_pc = "ready"
    /\ fn_title \in Titles
    /\ fn_output = <<>>
    /\ fn_option = NoOption
    /\ MainIdle
    /\ ExtractIdle
    /\ EpubIdle

\* lines 112-117: the output name, derived from the novel title or as given
SanitizeFilename ==
    /\ fn_pc = "ready"
    /\ fn_pc' = "done"
    /\ fn_output' = output_path(fn_option, fn_title)
    /\ UNCHANGED <<fn_title, fn_option>>
    /\ UNCHANGED <<main_vars, extract_vars, epub_vars>>

FilenameSpec == FilenameInit /\ [][SanitizeFilename]_vars

\* the elements of s at the positions K, in order
AtPositions(s, K) ==
    [j \in 1..Cardinality(K) |-> s[CHOOSE i \in K : Cardinality({k \in K : k <= i}) = j]]

\* the title character by character: lower case, "_" for the space
Mapped(c) == CASE c = "A" -> "a" [] c = " " -> "_" [] OTHER -> c

\* the positions of the title that are not punctuation
NotPunctuation == {i \in 1..Len(fn_title) : fn_title[i] # "!"}

(***************************************************************************)
(* C16 as stated: the output name is the title in lower case with every    *)
(* space turned into an underscore and the punctuation left out, followed  *)
(* by ".epub".                                                             *)
(***************************************************************************)
C16_LowerUnderscoreStrip ==
    fn_pc = "done" =>
        fn_output = AtPositions([i \in 1..Len(fn_title) |-> Mapped(fn_title[i])],
                                NotPunctuation) \o <<".", "e", "p", "u", "b">>

(***************************************************************************)
(* C16 amended: the output name is the title in lower case with every      *)
(* space turned into an underscore and the punctuation left out, then each *)
(* run of underscores reduced to one underscore and each run of hyphens to *)
(* one hyphen, then without the underscores and hyphens at its two ends,   *)
(* followed by ".epub".                                                    *)
(***************************************************************************)
C16_SanitizedFilename ==
    fn_pc = "done" =>
        LET n == AtPositions([i \in 1..Len(fn_title) |-> Mapped(fn_title[i])], NotPunctuation)
            sep(i) == n[i] \in {"_", "-"}
            kept == {i \in 1..Len(n) :
                        \/ ~sep(i)
                        \/ /\ i > 1 => n[i - 1] # n[i]
                           /\ \E j \in 1..(i - 1) : ~sep(j)
                           /\ \E j \in (i + 1)..Len(n) : ~sep(j)}
        IN  fn_output = AtPositions(n, kept) \o <<".", "e", "p", "u", "b">>

C16_Witness ==
    /\ fn_pc = "done"
    /\ fn_title = <<"A", " ", " ", "b">>
    /\ fn_output = <<"a", "_", "b", ".", "e", "p", "u", "b">>

C16_WitnessTrim ==
    /\ fn_pc = "done"
    /\ fn_title = <<"-", "1", "!", " ">>
    /\ fn_output = <<"1", ".", "e", "p", "u", "b">>

\* where the leftmost match of the pattern starts in u
MatchStart(p, u) ==
    CHOOSE k \in 1..(Len(u) + 1) :
        MatchAt(p, u, k) /\ \A m \in 1..(Len(u) + 1) : MatchAt(p, u, m) => k <= m

\* first position and length of the chapter number the pattern locates in u
NumberStart(p, u) ==
    LET j == MatchStart(p, u) + Len(p.pre)
    IN  IF p.form = "seg_last" THEN j + RunLen(p.form, u, j) - 1 ELSE j

NumberLen(p, u) ==
    IF p.form = "seg_last" THEN 1
    ELSE RunLen(p.form, u, MatchStart(p, u) + Len(p.pre))

(***************************************************************************)
(* C17 (as claimed): the URL the traversal moves to differs from the URL   *)
(* it was computed from only in the chapter number the pattern locates:    *)
(* what precedes the number and what follows it are the same in both.      *)
(***************************************************************************)
C17_OnlyChapterNumberChanges ==
    (pc = "guard" /\ fetched # <<>> /\ next_url.kind = "url") =>
        LET u == fetched[Len(fetched)].url
            v == current_chapter_url
            s == NumberStart(url_pattern, u)
            before == SubSeq(u, 1, s - 1)
            after == SubSeq(u, s + NumberLen(url_pattern, u), Len(u))
        IN  /\ Len(v) >= Len(before) + Len(after)
            /\ SubSeq(v, 1, Len(before)) = before
            /\ SubSeq(v, Len(v) - Len(after) + 1, Len(v)) = after

\* the loop of lines 151-190 is being executed or has been left
LoopEntered == pc \in {"guard", "fetch", "extract", "advance", "finish"} \/ fetched # <<>>

(***************************************************************************)
(* C18: the chapter number is 1 when the loop is entered and grows by      *)
(* exactly 1 with every move to a next URL, whatever the page gave, and by *)
(* no other step; at every fetch it is the number of URLs visited so far,  *)
(* the one being fetched included, and after the fetch the number of       *)
(* fetches made.                                                           *)
(***************************************************************************)
C18_ChapterNumberCountsPages ==
    /\ [](/\ pc = "fetch" => /\ chapter_number = Cardinality(processed_urls)
                             /\ chapter_number = Len(fetched) + 1
          /\ pc \in {"extract", "advance"} => chapter_number = Len(fetched)
          /\ LoopEntered => chapter_number >= 1)
    /\ [][/\ (pc = "setup" /\ pc' = "guard") => chapter_number' = 1
          /\ (pc = "advance" /\ pc' = "guard") => chapter_number' = chapter_number + 1
          /\ (pc \notin {"setup", "advance"} \/ pc' # "guard") => chapter_number' = chapter_number]_vars

C18_Witness ==
    /\ pc = "fetch"
    /\ chapter_number = 4
    /\ Len(fetched) = 3
    /\ EmptyFetch(1) /\ ContentFetch(2) /\ EmptyFetch(3)
    /\ Len(chapter_contents) = 1

(***************************************************************************)
(* C19: processed_urls never loses a URL; the URL being fetched and every  *)
(* URL fetched before are in it; the number of fetches made is the size of *)
(* the set, or one less between the insertion at the loop guard and the    *)
(* fetch.                                                                  *)
(***************************************************************************)
C19_VisitedSetGrows ==
    /\ [](/\ FetchedUrls \subseteq processed_urls
          /\ pc = "fetch" => /\ current_chapter_url \in processed_urls
                             /\ Len(fetched) = Cardinality(processed_urls) - 1
          /\ pc # "fetch" => Len(fetched) = Cardinality(processed_urls))
    /\ [][processed_urls \subseteq processed_urls']_vars

C19_Witness ==
    /\ pc = "fetch"
    /\ Cardinality(processed_urls) = 3
    /\ Len(fetched) = 2
    /\ current_chapter_url \notin FetchedUrls

\* the number of fetches whose page has been examined
Examined ==
    IF fetched = <<>> THEN 0
    ELSE IF pc = "extract" \/ fetched[Len(fetched)].html.kind # "page" THEN Len(fetched) - 1
    ELSE Len(fetched)

(***************************************************************************)
(* C20: the empty streak is the number of content-less pages at the end of *)
(* the pages fetched and examined so far, a page with content setting it   *)
(* to 0; the loop ends with the streak exhausted only when the last T      *)
(* fetched pages all had no content.                                       *)
(***************************************************************************)
C20_StreakCountsTrailingEmptyPages ==
    /\ consecutive_empty_chapters = TrailingEmpty(Examined)
    /\ (Examined > 0 /\ ContentFetch(Examined)) => consecutive_empty_chapters = 0
    /\ stop_reason = "empty-streak" =>
          /\ Len(fetched) >= empty_chapter_threshold
          /\ \A i \in (Len(fetched) - empty_chapter_threshold + 1)..Len(fetched) : EmptyFetch(i)

C20_Witness ==
    /\ pc = "advance"
    /\ empty_chapter_threshold = 2
    /\ Len(fetched) = 4
    /\ EmptyFetch(1) /\ ContentFetch(2) /\ EmptyFetch(3) /\ ContentFetch(4)
    /\ consecutive_empty_chapters = 0

C20_WitnessExhausted ==
    /\ pc = "exited"
    /\ stop_reason = "empty-streak"
    /\ empty_chapter_threshold = 2
    /\ Len(fetched) = 4
    /\ EmptyFetch(1) /\ ContentFetch(2) /\ EmptyFetch(3) /\ EmptyFetch(4)

\* the URL at the loop guard was fetched before, and not in the last pass
RevisitAfterCycle ==
    /\ pc = "guard"
    /\ fetched # <<>>
    /\ current_chapter_url \in FetchedUrls
    /\ current_chapter_url # fetched[Len(fetched)].url

(***************************************************************************)
(* C21 as stated: a navigator cycle of period greater than 1 (A, B, A) is  *)
(* not caught: when the URL at the loop guard was fetched earlier, but not *)
(* in the pass just made, the traversal goes on to fetch it again.         *)
(***************************************************************************)
C21_CycleFetchedAgain == [][RevisitAfterCycle => pc' = "fetch"]_vars

(***************************************************************************)
(* C21 amended: the loop guard catches every return to a URL fetched       *)
(* before, whatever the period of the cycle: the traversal ends there with *)
(* the reason url-loop and without another fetch; a URL that is not equal, *)
(* character by character, to one fetched before passes the guard.         *)
(***************************************************************************)
C21_EveryRevisitCaught ==
    [][/\ (pc = "guard" /\ current_chapter_url \in FetchedUrls) =>
              /\ pc' = "finish"
              /\ stop_reason' = "url-loop"
              /\ fetched' = fetched
       /\ (pc = "guard" /\ current_chapter_url # <<>> /\ current_chapter_url \notin FetchedUrls) =>
              /\ pc' = "fetch"
              /\ stop_reason' = stop_reason]_vars

C21_Witness ==
    /\ pc = "finish"
    /\ stop_reason = "url-loop"
    /\ Len(fetched) = 2
    /\ current_chapter_url = fetched[1].url
    /\ current_chapter_url # fetched[2].url

(***************************************************************************)
(* Traversals of a novel that ends: from some chapter on every URL fails   *)
(* to fetch or gives a page without extractable content.  A page with      *)
(* content is served only while the fetches left can hold the empty        *)
(* streak that follows it.                                                 *)
(***************************************************************************)
ContentlessResults == {r \in FetchResults : ~HtmlTruthy(r) \/ ~r.has_content}

TailResults ==
    IF Len(fetched) + 1 + empty_chapter_threshold <= MaxFetches
    THEN FetchResults
    ELSE ContentlessResults

FetchPageTail == FetchStep(TailResults)

TerminationNext ==
    LoadConfig \/ SetUp \/ LoopGuard \/ FetchPageTail \/ ExtractChapter \/ Advance \/ Finish

\* the step that leaves the navigator call of line 182: get_next_chapter_url
\* always comes back, with a URL, with None or with an exception
NavigatorReturns == pc = "advance" /\ pc' \in {"guard", "finish", "exited"}

\* the program runs on: every statement that can be executed is executed
TerminationSpec ==
    /\ Init
    /\ [][TerminationNext]_vars
    /\ WF_vars(LoadConfig)
    /\ WF_vars(SetUp)
    /\ WF_vars(LoopGuard)
    /\ WF_vars(FetchPageTail)
    /\ WF_vars(ExtractChapter)
    /\ WF_pc(NavigatorReturns)
    /\ WF_vars(Finish)

\* the index of the last fetch that gave a page with content, 0 without one
LastContentFetch ==
    IF ContentFetches = {} THEN 0
    ELSE CHOOSE i \in ContentFetches : \A j \in ContentFetches : j <= i

(***************************************************************************)
(* C22: with a threshold T >= 1, a traversal whose pages from some chapter *)
(* on all fail to fetch or have no extractable content comes to its end,   *)
(* and at no time more than T pages have been fetched after the last page  *)
(* with content.                                                           *)
(***************************************************************************)
C22_TraversalTerminates ==
    /\ [](empty_chapter_threshold >= 1 =>
             Len(fetched) - LastContentFetch <= empty_chapter_threshold)
    /\ <>(empty_chapter_threshold = 0 \/ pc = "exited")

C22_Witness ==
    /\ pc = "exited"
    /\ stop_reason = "empty-streak"
    /\ empty_chapter_threshold = 2
    /\ Len(fetched) = 4
    /\ LastContentFetch = 2
    /\ ContentFetch(1)

(***************************************************************************)
(* The output path over runs with and without the --output option.         *)
(***************************************************************************)
OptionPaths ==
    { DEFAULT_OUTPUT_FILENAME,
      <<"m", "y">> \o Epub,
      <<"a">> \o Epub,
      <<".", "/">> \o DEFAULT_OUTPUT_FILENAME }

Options == {NoOption} \cup {Option(p) : p \in OptionPaths}

OutputInit ==
    /\ fn_pc = "ready"
    /\ fn_title \in Titles
    /\ fn_output = <<>>
    /\ fn_option \in Options
    /\ MainIdle
    /\ ExtractIdle
    /\ EpubIdle

OutputSpec == OutputInit /\ [][SanitizeFilename]_vars

(***************************************************************************)
(* C23 (as claimed): the path handed to the document builder is the path   *)
(* of the --output option whenever the option was given, the literal       *)
(* output.epub included, and the name derived from the novel title only    *)
(* when the option was not given.                                          *)
(***************************************************************************)
C23_ExplicitOutputIsUsed ==
    fn_pc = "done" =>
        /\ fn_option.given => fn_output = fn_option.value
        /\ ~fn_option.given => fn_output = _sanitize_filename(fn_title)

====
